---- MODULE Spec2Model ----
(***************************************************************************)
(* A model of the oauth2 crate (src/src/lib.rs): the Client configuration  *)
(* and its builder calls, the authorization-URL entry points, and the four *)
(* token-exchange operations with the classification of the token          *)
(* endpoint's response.                                                    *)
(*                                                                         *)
(* Strings are sequences of one-character strings, so that join, split,    *)
(* to_lowercase, starts_with and the form-urlencoding are computed and not *)
(* assumed.  Option<T> is a record [some, v].                              *)
(***************************************************************************)
EXTENDS Integers, Sequences, FiniteSets, TLC

VARIABLES client, pc, request, posts, last

vars == <<client, pc, request, posts, last>>

(***************************************************************************)
(* Bounds of the model.                                                    *)
(***************************************************************************)
\* the longest scope sequence add_scope builds
MaxScopes == 2

(***************************************************************************)
(* Option<T>                                                               *)
(***************************************************************************)
None == [some |-> FALSE, v |-> <<>>]

Some(x) == [some |-> TRUE, v |-> x]

(***************************************************************************)
(* String literals of the source.                                          *)
(***************************************************************************)
\* "application/json"
CONTENT_TYPE_JSON == <<"a","p","p","l","i","c","a","t","i","o","n","/","j","s","o","n">>

\* "response_type"
K_response_type == <<"r","e","s","p","o","n","s","e","_","t","y","p","e">>

\* "client_id"
K_client_id == <<"c","l","i","e","n","t","_","i","d">>

\* "client_secret"
K_client_secret == <<"c","l","i","e","n","t","_","s","e","c","r","e","t">>

\* "redirect_uri"
K_redirect_uri == <<"r","e","d","i","r","e","c","t","_","u","r","i">>

\* "scope"
K_scope == <<"s","c","o","p","e">>

\* "state"
K_state == <<"s","t","a","t","e">>

\* "grant_type"
K_grant_type == <<"g","r","a","n","t","_","t","y","p","e">>

\* "code"
K_code == <<"c","o","d","e">>

\* "username"
K_username == <<"u","s","e","r","n","a","m","e">>

\* "password"
K_password == <<"p","a","s","s","w","o","r","d">>

\* "refresh_token"
K_refresh_token == <<"r","e","f","r","e","s","h","_","t","o","k","e","n">>

\* "authorization_code"
V_authorization_code == <<"a","u","t","h","o","r","i","z","a","t","i","o","n","_","c","o","d","e">>

\* "client_credentials"
V_client_credentials == <<"c","l","i","e","n","t","_","c","r","e","d","e","n","t","i","a","l","s">>

\* "token"
V_token == <<"t","o","k","e","n">>

(***************************************************************************)
(* str::to_lowercase, str::starts_with, [String]::join                     *)
(***************************************************************************)
UpperCase == <<"A","B","C","D","E","F","G","H","I","J","K","L","M",
               "N","O","P","Q","R","S","T","U","V","W","X","Y","Z">>

LowerCase == <<"a","b","c","d","e","f","g","h","i","j","k","l","m",
               "n","o","p","q","r","s","t","u","v","w","x","y","z">>

char_to_lowercase(c) ==
    IF \E k \in 1..Len(UpperCase) : UpperCase[k] = c
    THEN LowerCase[CHOOSE k \in 1..Len(UpperCase) : UpperCase[k] = c]
    ELSE c

to_lowercase(s) == [i \in 1..Len(s) |-> char_to_lowercase(s[i])]

starts_with(s, prefix) ==
    /\ Len(s) >= Len(prefix)
    /\ SubSeq(s, 1, Len(prefix)) = prefix

RECURSIVE join(_, _)
join(strs, sep) ==
    IF Len(strs) = 0 THEN <<>>
    ELSE IF Len(strs) = 1 THEN strs[1]
    ELSE strs[1] \o sep \o join(Tail(strs), sep)

(***************************************************************************)
(* url::form_urlencoded::Serializer, as used for the query of the          *)
(* authorization URL and for the body of the token request: a space        *)
(* becomes "+", the bytes *-._0-9A-Za-z stay, every other byte is          *)
(* percent-encoded.                                                        *)
(***************************************************************************)
Unreserved ==
    {UpperCase[k] : k \in 1..Len(UpperCase)} \cup
    {LowerCase[k] : k \in 1..Len(LowerCase)} \cup
    {"0","1","2","3","4","5","6","7","8","9","*","-",".","_"}

PercentCode(c) ==
    CASE c = "&" -> <<"%","2","6">>
      [] c = "+" -> <<"%","2","B">>
      [] c = "/" -> <<"%","2","F">>
      [] c = ":" -> <<"%","3","A">>
      [] c = ";" -> <<"%","3","B">>
      [] c = "=" -> <<"%","3","D">>
      [] c = "?" -> <<"%","3","F">>
      [] c = "%" -> <<"%","2","5">>

byte_serialize(c) ==
    IF c = " " THEN <<"+">>
    ELSE IF c \in Unreserved THEN <<c>>
    ELSE PercentCode(c)

RECURSIVE append_encoded(_)
append_encoded(s) ==
    IF Len(s) = 0 THEN <<>>
    ELSE byte_serialize(Head(s)) \o append_encoded(Tail(s))

\* Serializer::append_pair on a target whose serialized part starts at `start`
append_pair(target, start, k, v) ==
    (IF Len(target) > start THEN target \o <<"&">> ELSE target)
        \o append_encoded(k) \o <<"=">> \o append_encoded(v)

RECURSIVE extend_pairs(_, _, _)
extend_pairs(target, start, pairs) ==
    IF Len(pairs) = 0 THEN target
    ELSE extend_pairs(append_pair(target, start, pairs[1][1], pairs[1][2]),
                      start, Tail(pairs))

(***************************************************************************)
(* Url: the part before the query, and the query (absent, or the text      *)
(* after "?").  query_pairs_mut() makes an absent query the empty one and  *)
(* appends to what is there.                                               *)
(***************************************************************************)
query_pairs_mut_extend_pairs(url, pairs) ==
    [url EXCEPT !.query =
        Some(extend_pairs(IF url.query.some THEN url.query.v ELSE <<>>, 0, pairs))]

url_to_string(url) ==
    IF url.query.some THEN url.base \o <<"?">> \o url.query.v ELSE url.base

(***************************************************************************)
(* The inputs the callers draw from.                                       *)
(***************************************************************************)
ClientIds == { <<"c","i","d">> }

ClientSecrets == { None, Some(<<"s","+","k">>) }

\* Url::parse results: an authorization endpoint without a query, and one
\* whose own query already names redirect_uri and scope
AuthUrls ==
    { [base |-> <<"h","t","t","p",":","/","/","a","/">>, query |-> None],
      [base |-> <<"h","t","t","p",":","/","/","a","/">>,
       query |-> Some(<<"s","c","o","p","e","=","q","&">>
                      \o K_redirect_uri \o <<"=","q">>)] }

TokenUrls == { [base |-> <<"h","t","t","p",":","/","/","t","/">>, query |-> None] }

AuthTypes == {"RequestBody", "BasicAuth"}

ScopeValues == { <<>>, <<"a">>, <<"b">> }

RedirectUrls == { <<"h","t","t","p",":","/","/","r","?","x","=","1">> }

States == { <<"c","s","r","f">> }

\* authorize_url_extension's arguments
ResponseTypes == { <<"e","x","t">> }

ExtraParams ==
    { <<>>,
      << <<<<"f">>, <<"1">>>>, <<<<"e">>, <<"2"," ","3">>>> >>,
      << <<K_redirect_uri, <<"x">>>>, <<K_scope, <<"y">>>> >> }

(***************************************************************************)
(* Client::new and the builder calls.                                      *)
(***************************************************************************)
new(client_id, client_secret, auth_url, token_url) ==
    [client_id     |-> client_id,
     client_secret |-> client_secret,
     auth_url      |-> auth_url,
     auth_type     |-> "BasicAuth",
     token_url     |-> token_url,
     scopes        |-> <<>>,
     redirect_url  |-> None]

(***************************************************************************)
(* Client::authorize_url_impl                                              *)
(***************************************************************************)
\* authorize_url_impl with the credentials of a RequestBody client among the
\* pairs, as post_request_token has them
authorize_url_impl_with_credentials(self, response_type, state_opt, extra_params_opt) ==
    LET scopes == join(self.scopes, <<" ">>)
        pairs0 == << <<K_response_type, response_type>>,
                     <<K_client_id, self.client_id>> >>
        pairsA == IF self.auth_type = "RequestBody" /\ self.client_secret.some
                  THEN Append(pairs0, <<K_client_secret, self.client_secret.v>>)
                  ELSE pairs0
        pairs1 == IF self.redirect_url.some
                  THEN Append(pairsA, <<K_redirect_uri, self.redirect_url.v>>)
                  ELSE pairsA
        pairs2 == IF Len(scopes) # 0
                  THEN Append(pairs1, <<K_scope, scopes>>)
                  ELSE pairs1
        pairs3 == IF state_opt.some
                  THEN Append(pairs2, <<K_state, state_opt.v>>)
                  ELSE pairs2
        url1   == query_pairs_mut_extend_pairs(self.auth_url, pairs3)
    IN  IF extra_params_opt.some
        THEN query_pairs_mut_extend_pairs(url1, extra_params_opt.v)
        ELSE url1

\* authorize_url_impl with the caller's extra_params put before the standard
\* parameters
authorize_url_impl_extra_first(self, response_type, state_opt, extra_params_opt) ==
    LET scopes == join(self.scopes, <<" ">>)
        pairs0 == << <<K_response_type, response_type>>,
                     <<K_client_id, self.client_id>> >>
        pairs1 == IF self.redirect_url.some
                  THEN Append(pairs0, <<K_redirect_uri, self.redirect_url.v>>)
                  ELSE pairs0
        pairs2 == IF Len(scopes) # 0
                  THEN Append(pairs1, <<K_scope, scopes>>)
                  ELSE pairs1
        pairs3 == IF state_opt.some
                  THEN Append(pairs2, <<K_state, state_opt.v>>)
                  ELSE pairs2
        url1   == IF extra_params_opt.some
                  THEN query_pairs_mut_extend_pairs(self.auth_url, extra_params_opt.v)
                  ELSE self.auth_url
    IN  query_pairs_mut_extend_pairs(url1, pairs3)

authorize_url_impl(self, response_type, state_opt, extra_params_opt) ==
    LET scopes == join(self.scopes, <<" ">>)
        pairs0 == << <<K_response_type, response_type>>,
                     <<K_client_id, self.client_id>> >>
        pairs1 == IF self.redirect_url.some
                  THEN Append(pairs0, <<K_redirect_uri, self.redirect_url.v>>)
                  ELSE pairs0
        pairs2 == IF Len(scopes) # 0
                  THEN Append(pairs1, <<K_scope, scopes>>)
                  ELSE pairs1
        pairs3 == IF state_opt.some
                  THEN Append(pairs2, <<K_state, state_opt.v>>)
                  ELSE pairs2
        url1   == query_pairs_mut_extend_pairs(self.auth_url, pairs3)
    IN  IF extra_params_opt.some
        THEN query_pairs_mut_extend_pairs(url1, extra_params_opt.v)
        ELSE url1

(***************************************************************************)
(* JSON values as serde_json hands them to the derived Deserialize         *)
(* implementations: a member of an object is absent, null, a string or a   *)
(* number.  A text is either no JSON object at all or an object, of which  *)
(* the members the two structs know are kept (serde ignores the others).   *)
(***************************************************************************)
JAbsent == [t |-> "absent", s |-> <<>>, n |-> 0]

JNull == [t |-> "null", s |-> <<>>, n |-> 0]

JStr(s) == [t |-> "str", s |-> s, n |-> 0]

JNum(n) == [t |-> "num", s |-> <<>>, n |-> n]

NoMembers ==
    [error |-> JAbsent, error_description |-> JAbsent, error_uri |-> JAbsent,
     access_token |-> JAbsent, token_type |-> JAbsent, expires_in |-> JAbsent,
     refresh_token |-> JAbsent, scope |-> JAbsent]

NotJson == [json |-> FALSE, m |-> NoMembers]

JObject(m) == [json |-> TRUE, m |-> m]

\* Result<T, serde_json::error::Error>
Ok(x) == [ok |-> TRUE, v |-> x]

Err == [ok |-> FALSE, v |-> <<>>]

\* Option<String>::deserialize of a member (a missing Option member is None)
deserialize_option_string(j) ==
    CASE j.t = "absent" -> Ok(None)
      [] j.t = "null"   -> Ok(None)
      [] j.t = "str"    -> Ok(Some(j.s))
      [] OTHER          -> Err

\* Option<u64>::deserialize of a member
deserialize_option_u64(j) ==
    CASE j.t = "absent" -> Ok(None)
      [] j.t = "null"   -> Ok(None)
      [] j.t = "num"    -> IF j.n >= 0 THEN Ok(Some(j.n)) ELSE Err
      [] OTHER          -> Err

(***************************************************************************)
(* basic::BasicErrorResponseType: the names serde derives with             *)
(* rename_all = "snake_case", and the hand-written to_str behind Display   *)
(* and Debug.                                                              *)
(***************************************************************************)
BasicErrorResponseType ==
    {"InvalidRequest", "InvalidClient", "InvalidGrant", "UnauthorizedClient",
     "UnsupportedGrantType", "InvalidScope"}

\* the identifiers of the variants, as the derive macros read them
variant_ident(variant) ==
    CASE variant = "InvalidRequest" ->
            <<"I","n","v","a","l","i","d","R","e","q","u","e","s","t">>
      [] variant = "InvalidClient" ->
            <<"I","n","v","a","l","i","d","C","l","i","e","n","t">>
      [] variant = "InvalidGrant" ->
            <<"I","n","v","a","l","i","d","G","r","a","n","t">>
      [] variant = "UnauthorizedClient" ->
            <<"U","n","a","u","t","h","o","r","i","z","e","d","C","l","i","e","n","t">>
      [] variant = "UnsupportedGrantType" ->
            <<"U","n","s","u","p","p","o","r","t","e","d","G","r","a","n","t","T","y","p","e">>
      [] variant = "InvalidScope" ->
            <<"I","n","v","a","l","i","d","S","c","o","p","e">>
      [] variant = "Bearer" -> <<"B","e","a","r","e","r">>
      [] variant = "Mac"    -> <<"M","a","c">>

\* serde's rename rule snake_case for a variant: an underscore before every
\* upper-case letter but the first, each letter in lower case
RECURSIVE rename_snake_case(_, _)
rename_snake_case(ident, first) ==
    IF Len(ident) = 0 THEN <<>>
    ELSE (IF ~first /\ char_to_lowercase(Head(ident)) # Head(ident)
          THEN <<"_">> ELSE <<>>)
             \o <<char_to_lowercase(Head(ident))>>
             \o rename_snake_case(Tail(ident), FALSE)

\* the rename rule without the underscores: the identifier in lower case
serde_snake_case_no_underscore(variant) == to_lowercase(variant_ident(variant))

serde_snake_case(variant) == rename_snake_case(variant_ident(variant), TRUE)

to_str(variant) ==
    CASE variant = "InvalidRequest" ->
            <<"i","n","v","a","l","i","d","_","r","e","q","u","e","s","t">>
      [] variant = "InvalidClient" ->
            <<"i","n","v","a","l","i","d","_","c","l","i","e","n","t">>
      [] variant = "InvalidGrant" ->
            <<"i","n","v","a","l","i","d","_","g","r","a","n","t">>
      [] variant = "UnauthorizedClient" ->
            <<"u","n","a","u","t","h","o","r","i","z","e","d","_","c","l","i","e","n","t">>
      [] variant = "UnsupportedGrantType" ->
            <<"u","n","s","u","p","p","o","r","t","e","d","_","g","r","a","n","t","_","t","y","p","e">>
      [] variant = "InvalidScope" ->
            <<"i","n","v","a","l","i","d","_","s","c","o","p","e">>

\* impl Display: write!(f, "{}", self.to_str())
Display_fmt(variant) == to_str(variant)

\* impl Debug: Display::fmt(self, f)
Debug_fmt(variant) == Display_fmt(variant)

\* the derived Serialize of the enum: a JSON string
serialize_error_type(variant) == JStr(serde_snake_case(variant))

\* the derived Deserialize of the enum, from a JSON string
deserialize_error_type(s) ==
    IF \E variant \in BasicErrorResponseType : serde_snake_case(variant) = s
    THEN Ok(CHOOSE variant \in BasicErrorResponseType : serde_snake_case(variant) = s)
    ELSE Err

(***************************************************************************)
(* ErrorResponse<BasicErrorResponseType>: serde_json::from_str             *)
(***************************************************************************)
NoErrorResponse == [_error |-> "", _error_description |-> None, _error_uri |-> None]

ErrorResponse_from_str(doc) ==
    LET error == IF doc.m.error.t = "str"
                 THEN deserialize_error_type(doc.m.error.s) ELSE Err
        descr == deserialize_option_string(doc.m.error_description)
        uri   == deserialize_option_string(doc.m.error_uri)
    IN  IF doc.json /\ error.ok /\ descr.ok /\ uri.ok
        THEN Ok([_error |-> error.v, _error_description |-> descr.v,
                 _error_uri |-> uri.v])
        ELSE Err

(***************************************************************************)
(* basic::BasicTokenType (rename_all = "lowercase") and the helpers.       *)
(***************************************************************************)
BasicTokenType == {"Bearer", "Mac"}

\* serde's rename rule lowercase
serde_lowercase(variant) == to_lowercase(variant_ident(variant))

deserialize_token_type(s) ==
    IF \E variant \in BasicTokenType : serde_lowercase(variant) = s
    THEN Ok(CHOOSE variant \in BasicTokenType : serde_lowercase(variant) = s)
    ELSE Err

\* the helper without the lower-casing of the wire string
deserialize_untagged_enum_case_sensitive(j) ==
    IF j.t = "str" THEN deserialize_token_type(j.s) ELSE Err

\* helpers::deserialize_untagged_enum_case_insensitive
deserialize_untagged_enum_case_insensitive(j) ==
    IF j.t = "str" THEN deserialize_token_type(to_lowercase(j.s)) ELSE Err

\* str::split(' ')
RECURSIVE split_space(_, _)
split_space(s, current) ==
    IF Len(s) = 0 THEN <<current>>
    ELSE IF Head(s) = " " THEN <<current>> \o split_space(Tail(s), <<>>)
    ELSE split_space(Tail(s), Append(current, Head(s)))

\* the helper with a JSON null read as the empty sequence
deserialize_space_delimited_vec_null_as_empty(j) ==
    LET space_delimited == deserialize_option_string(j)
    IN  IF ~space_delimited.ok THEN Err
        ELSE IF space_delimited.v.some
             THEN Ok(Some(split_space(space_delimited.v.v, <<>>)))
             ELSE Ok(Some(<<>>))

\* helpers::deserialize_space_delimited_vec, with T = Option<Vec<String>>
deserialize_space_delimited_vec(j) ==
    LET space_delimited == deserialize_option_string(j)
    IN  IF ~space_delimited.ok THEN Err
        ELSE IF space_delimited.v.some
             THEN Ok(Some(split_space(space_delimited.v.v, <<>>)))
             ELSE Ok(None)

\* helpers::serialize_space_delimited_vec: the JSON value it writes
serialize_space_delimited_vec(string_vec_opt) ==
    IF string_vec_opt.some
    THEN JStr(join(string_vec_opt.v, <<" ">>))
    ELSE JNull

(***************************************************************************)
(* basic::BasicToken: Token::from_json                                     *)
(***************************************************************************)
NoToken ==
    [_access_token |-> <<>>, _token_type |-> "", _expires_in |-> None,
     _refresh_token |-> None, _scopes |-> None]

from_json(doc) ==
    LET token_type == deserialize_untagged_enum_case_insensitive(doc.m.token_type)
        expires_in == deserialize_option_u64(doc.m.expires_in)
        refresh    == deserialize_option_string(doc.m.refresh_token)
        scopes     == IF doc.m.scope.t = "absent" THEN Ok(None)
                      ELSE deserialize_space_delimited_vec(doc.m.scope)
    IN  IF /\ doc.json
           /\ doc.m.access_token.t = "str"
           /\ token_type.ok /\ expires_in.ok /\ refresh.ok /\ scopes.ok
        THEN Ok([_access_token |-> doc.m.access_token.s,
                 _token_type |-> token_type.v,
                 _expires_in |-> expires_in.v,
                 _refresh_token |-> refresh.v,
                 _scopes |-> scopes.v])
        ELSE Err

(***************************************************************************)
(* The token endpoint's answer as the transport hands it over.  A body is  *)
(* empty or not, valid UTF-8 or not, and `doc` is the JSON reading of its  *)
(* text (of the lossily decoded text when it is not valid UTF-8).          *)
(***************************************************************************)
Body(empty, utf8, doc) == [empty |-> empty, utf8 |-> utf8, doc |-> doc]

\* {"access_token":"tok","token_type":"Bearer"}
TokenDoc ==
    JObject([NoMembers EXCEPT !.access_token = JStr(<<"t","o","k">>),
                              !.token_type = JStr(<<"B","e","a","r","e","r">>)])

\* {"error":"invalid_grant"}
InvalidGrantDoc ==
    JObject([NoMembers EXCEPT !.error = JStr(<<"i","n","v","a","l","i","d","_","g","r","a","n","t">>)])

\* {"error":"invalid_client","error_description":"<a byte that is not UTF-8>"}
InvalidClientDoc ==
    JObject([NoMembers EXCEPT !.error = JStr(<<"i","n","v","a","l","i","d","_","c","l","i","e","n","t">>),
                              !.error_description = JStr(<<"?">>)])

\* {"error":"bogus"}
UnknownErrorDoc ==
    JObject([NoMembers EXCEPT !.error = JStr(<<"b","o","g","u","s">>)])

Bodies ==
    { Body(TRUE, TRUE, NotJson),
      Body(FALSE, TRUE, NotJson),
      Body(FALSE, FALSE, NotJson),
      Body(FALSE, TRUE, TokenDoc),
      Body(FALSE, TRUE, InvalidGrantDoc),
      Body(FALSE, FALSE, InvalidClientDoc),
      Body(FALSE, TRUE, UnknownErrorDoc) }

HttpStatuses == {200, 201, 400}

ContentTypes ==
    { None,
      Some(CONTENT_TYPE_JSON),
      \* "Application/JSON; charset=utf-8"
      Some(<<"A","p","p","l","i","c","a","t","i","o","n","/","J","S","O","N",";"," ",
             "c","h","a","r","s","e","t","=","u","t","f","-","8">>),
      \* "text/html"
      Some(<<"t","e","x","t","/","h","t","m","l">>) }

\* what the transfer and the two reads after it give: the step that failed
\* ("" when none did) and the response
Outcome(err, http_status, content_type, response_body) ==
    [err |-> err, http_status |-> http_status, content_type |-> content_type,
     response_body |-> response_body]

NoOutcome == Outcome("", 0, None, Body(TRUE, TRUE, NotJson))

\* the fallible calls on the curl handle, in the order of post_request_token
CurlStepsAfterSetup == {"perform", "response_code", "content_type"}

TransportOutcomes ==
    { Outcome(step, 0, None, Body(TRUE, TRUE, NotJson)) : step \in CurlStepsAfterSetup }
    \cup
    { Outcome("", http_status, content_type, response_body) :
        http_status \in HttpStatuses, content_type \in ContentTypes,
        response_body \in Bodies }

\* the answers the full specification draws from: a transport failure, a
\* token, a token under a wrong Content-Type, a server error, two empty bodies
SampleOutcomes ==
    { Outcome("perform", 0, None, Body(TRUE, TRUE, NotJson)),
      Outcome("", 200, Some(CONTENT_TYPE_JSON), Body(FALSE, TRUE, TokenDoc)),
      Outcome("", 200, Some(<<"t","e","x","t","/","h","t","m","l">>),
              Body(FALSE, TRUE, TokenDoc)),
      Outcome("", 400, None, Body(FALSE, TRUE, InvalidGrantDoc)),
      Outcome("", 200, None, Body(TRUE, TRUE, NotJson)),
      Outcome("", 201, None, Body(TRUE, TRUE, NotJson)) }

curl_steps_before_perform(self) ==
    (IF self.auth_type = "BasicAuth"
     THEN {"username"} \cup (IF self.client_secret.some THEN {"password"} ELSE {})
     ELSE {})
    \cup {"url", "headers_append", "http_headers", "post", "post_field_size",
          "read_function", "write_function"}

\* lines 451-464 with the client_id pushed to the body under either auth_type
client_auth_params_always(self, params) ==
    LET p == Append(params, <<K_client_id, self.client_id>>)
    IN  IF self.auth_type = "RequestBody" /\ self.client_secret.some
        THEN Append(p, <<K_client_secret, self.client_secret.v>>)
        ELSE p

\* lines 451-464: what the match on auth_type pushes to the body
client_auth_params(self, params) ==
    IF self.auth_type = "RequestBody"
    THEN LET p == Append(params, <<K_client_id, self.client_id>>)
         IN  IF self.client_secret.some
             THEN Append(p, <<K_client_secret, self.client_secret.v>>)
             ELSE p
    ELSE params

\* lines 466-468 moved into the RequestBody arm of the match
redirect_uri_param_in_arm(self, params) ==
    IF self.redirect_url.some /\ self.auth_type = "RequestBody"
    THEN Append(params, <<K_redirect_uri, self.redirect_url.v>>)
    ELSE params

\* lines 466-468
redirect_uri_param(self, params) ==
    IF self.redirect_url.some
    THEN Append(params, <<K_redirect_uri, self.redirect_url.v>>)
    ELSE params

(***************************************************************************)
(* Client::post_request_token, up to transfer.perform(): the request as    *)
(* it is set on the curl handle.                                           *)
(***************************************************************************)
post_request_token_setup(self, params) ==
    LET params2 == redirect_uri_param(self, client_auth_params(self, params))
    IN  [username |-> IF self.auth_type = "BasicAuth"
                      THEN Some(self.client_id) ELSE None,
         password |-> IF self.auth_type = "BasicAuth"
                      THEN self.client_secret ELSE None,
         url      |-> url_to_string(self.token_url),
         accept   |-> CONTENT_TYPE_JSON,
         post     |-> TRUE,
         params   |-> params2,
         form     |-> extend_pairs(<<>>, 0, params2)]

\* Client::post_request_token from transfer.perform() on:
\* Result<RequestTokenResponse, curl::Error>
post_request_token_result(outcome) ==
    IF outcome.err # "" THEN Err
    ELSE Ok([http_status   |-> outcome.http_status,
             content_type  |-> outcome.content_type,
             response_body |-> outcome.response_body])

(***************************************************************************)
(* Client::request_token: the classification of what post_request_token    *)
(* returned.  `steps` lists the checks the call went through.              *)
(***************************************************************************)
NoMessage == [text |-> "", arg |-> <<>>]

Result(kind, token, error, message, steps) ==
    [kind |-> kind, token |-> token, error |-> error, message |-> message,
     steps |-> steps]

NoResult == Result("", NoToken, NoErrorResponse, NoMessage, <<>>)

ResultToken(token, steps) == Result("Token", token, NoErrorResponse, NoMessage, steps)

ResultServerResponse(error, steps) ==
    Result("ServerResponse", NoToken, error, NoMessage, steps)

ResultRequest == Result("Request", NoToken, NoErrorResponse, NoMessage, <<>>)

ResultParse(steps) == Result("Parse", NoToken, NoErrorResponse, NoMessage, steps)

ResultOther(text, arg, steps) ==
    Result("Other", NoToken, NoErrorResponse, [text |-> text, arg |-> arg], steps)

\* line 519: the statuses whose body is read as an error response
status_is_http_error(http_status) == http_status >= 400

status_is_error(http_status) == http_status # 200

\* lines 520-531: the body of a response that is not a 200
error_response(body) ==
    IF body.empty
    THEN ResultOther("Server returned empty error response", <<>>,
                     <<"http_status", "is_empty">>)
    ELSE LET error == ErrorResponse_from_str(body.doc)
             steps == <<"http_status", "is_empty", "ErrorResponse_from_str">>
         IN  IF error.ok THEN ResultServerResponse(error.v, steps)
             ELSE ResultParse(steps)

\* line 541, without the lower-casing
content_type_is_json_case_sensitive(content_type) ==
    starts_with(content_type, CONTENT_TYPE_JSON)

\* line 541: the test of a Content-Type that is present
content_type_is_json(content_type) ==
    starts_with(to_lowercase(content_type), CONTENT_TYPE_JSON)

\* lines 556-568, without the test for an empty body
token_of_body_unchecked(body) ==
    IF ~body.utf8
    THEN ResultOther("Couldn't parse response as UTF-8", <<>>,
                     <<"http_status", "content_type", "from_utf8">>)
    ELSE LET token == from_json(body.doc)
             steps == <<"http_status", "content_type", "from_utf8", "from_json">>
         IN  IF token.ok THEN ResultToken(token.v, steps)
             ELSE ResultParse(steps)

\* lines 556-568 with String::from_utf8_lossy, as the error path has it
token_of_body_lossy(body) ==
    IF body.empty
    THEN ResultOther("Server returned empty response body", <<>>,
                     <<"http_status", "content_type", "is_empty">>)
    ELSE LET token == from_json(body.doc)
             steps == <<"http_status", "content_type", "is_empty", "from_utf8",
                        "from_json">>
         IN  IF token.ok THEN ResultToken(token.v, steps)
             ELSE ResultParse(steps)

\* lines 556-568: the body of a 200 response whose Content-Type passed
token_of_body(body) ==
    IF body.empty
    THEN ResultOther("Server returned empty response body", <<>>,
                     <<"http_status", "content_type", "is_empty">>)
    ELSE IF ~body.utf8
    THEN ResultOther("Couldn't parse response as UTF-8", <<>>,
                     <<"http_status", "content_type", "is_empty", "from_utf8">>)
    ELSE LET token == from_json(body.doc)
             steps == <<"http_status", "content_type", "is_empty", "from_utf8",
                        "from_json">>
         IN  IF token.ok THEN ResultToken(token.v, steps)
             ELSE ResultParse(steps)

\* lines 519-568: the classification of a response
classify_response(token_response) ==
    IF status_is_error(token_response.http_status)
    THEN error_response(token_response.response_body)
    ELSE IF /\ token_response.content_type.some
            /\ ~content_type_is_json(token_response.content_type.v)
    THEN ResultOther("Unexpected response Content-Type",
                     token_response.content_type.v,
                     <<"http_status", "content_type">>)
    ELSE token_of_body(token_response.response_body)

\* request_token with the curl error defaulted away instead of returned
request_token_unwrap_or_default(post_result) ==
    IF ~post_result.ok
    THEN classify_response([http_status |-> 0, content_type |-> None,
                            response_body |-> Body(TRUE, TRUE, NotJson)])
    ELSE classify_response(post_result.v)

request_token(post_result) ==
    IF ~post_result.ok THEN ResultRequest
    ELSE classify_response(post_result.v)

(***************************************************************************)
(* What an operation returned.                                             *)
(***************************************************************************)
NoUrl == [base |-> <<>>, query |-> None]

NoArgs == [response_type |-> <<>>, state |-> None, extra_params |-> None]

Returned(op, args, url, outcome, result, sent) ==
    [op |-> op, args |-> args, url |-> url, outcome |-> outcome,
     result |-> result, posts |-> sent]

UrlOps == {"authorize_url", "authorize_url_implicit", "authorize_url_extension",
           "insecure_authorize_url", "insecure_authorize_url_implicit"}

BuilderOps == {"add_scope", "set_auth_type", "set_redirect_url"}

\* a builder call returns the Client; its argument is kept beside it
BuilderReturned(op, arg) ==
    Returned(op, [arg |-> arg], NoUrl, NoOutcome, NoResult, 0)

UrlReturned(op, response_type, state_opt, extra_params_opt) ==
    Returned(op,
             [response_type |-> response_type, state |-> state_opt,
              extra_params |-> extra_params_opt],
             authorize_url_impl(client, response_type, state_opt, extra_params_opt),
             NoOutcome, NoResult, 0)

\* a call that has not returned yet
Called == Returned("call", NoArgs, NoUrl, NoOutcome, NoResult, 0)

ExchangeReturned(outcome, sent) ==
    Returned("exchange", NoArgs, NoUrl, outcome,
             request_token(post_request_token_result(outcome)), sent)

(***************************************************************************)
(* Actions: the builder calls.                                             *)
(***************************************************************************)
\* add_scope that leaves out a scope the Client already has
add_scope_dedup(scope) ==
    /\ pc = "idle"
    /\ Len(client.scopes) < MaxScopes
    /\ client' = IF \E i \in 1..Len(client.scopes) : client.scopes[i] = scope
                 THEN client
                 ELSE [client EXCEPT !.scopes = Append(@, scope)]
    /\ last' = BuilderReturned("add_scope", scope)
    /\ UNCHANGED <<pc, request, posts>>

add_scope(scope) ==
    /\ pc = "idle"
    /\ Len(client.scopes) < MaxScopes
    /\ client' = [client EXCEPT !.scopes = Append(@, scope)]
    /\ last' = BuilderReturned("add_scope", scope)
    /\ UNCHANGED <<pc, request, posts>>

set_auth_type(auth_type) ==
    /\ pc = "idle"
    /\ client' = [client EXCEPT !.auth_type = auth_type]
    /\ last' = BuilderReturned("set_auth_type", auth_type)
    /\ UNCHANGED <<pc, request, posts>>

set_redirect_url(redirect_url) ==
    /\ pc = "idle"
    /\ client' = [client EXCEPT !.redirect_url = Some(redirect_url)]
    /\ last' = BuilderReturned("set_redirect_url", redirect_url)
    /\ UNCHANGED <<pc, request, posts>>

(***************************************************************************)
(* Actions: the authorization-URL entry points.                            *)
(***************************************************************************)
authorize_url(state) ==
    /\ pc = "idle"
    /\ last' = UrlReturned("authorize_url", K_code, Some(state), None)
    /\ UNCHANGED <<client, pc, request, posts>>

authorize_url_implicit(state) ==
    /\ pc = "idle"
    /\ last' = UrlReturned("authorize_url_implicit", V_token, Some(state), None)
    /\ UNCHANGED <<client, pc, request, posts>>

authorize_url_extension(response_type, extra_params) ==
    /\ pc = "idle"
    /\ last' = UrlReturned("authorize_url_extension", response_type, None,
                           Some(extra_params))
    /\ UNCHANGED <<client, pc, request, posts>>

insecure_authorize_url ==
    /\ pc = "idle"
    /\ last' = UrlReturned("insecure_authorize_url", K_code, None, None)
    /\ UNCHANGED <<client, pc, request, posts>>

insecure_authorize_url_implicit ==
    /\ pc = "idle"
    /\ last' = UrlReturned("insecure_authorize_url_implicit", V_token, None, None)
    /\ UNCHANGED <<client, pc, request, posts>>

(***************************************************************************)
(* Actions: the exchange operations.  A call sets its request on the curl  *)
(* handle; a step of the setup that fails returns the curl error at once   *)
(* (the `?` of post_request_token), otherwise the call blocks in           *)
(* transfer.perform() until the transport answers.                         *)
(***************************************************************************)
NoRequest == None

GrantCodes == { <<"c","&","d">> }

Usernames == { <<"u">> }

Passwords == { <<"p"," ","w">> }

RefreshTokens == { <<"r","t">> }

\* request_token(params) up to the point where the call blocks or returns
call_request_token(params, fail) ==
    /\ fail \in {"none"} \cup curl_steps_before_perform(client)
    /\ posts' = 0
    /\ IF fail = "none"
       THEN /\ pc' = "perform"
            /\ request' = Some(post_request_token_setup(client, params))
            /\ last' = Called
       ELSE /\ pc' = "idle"
            /\ request' = NoRequest
            /\ last' = ExchangeReturned(
                          Outcome(fail, 0, None, Body(TRUE, TRUE, NotJson)), 0)

exchange_code(code, fail) ==
    /\ pc = "idle"
    /\ call_request_token(<< <<K_grant_type, V_authorization_code>>,
                             <<K_code, code>> >>, fail)
    /\ UNCHANGED client

exchange_password(username, password, fail) ==
    /\ pc = "idle"
    /\ call_request_token(<< <<K_grant_type, K_password>>,
                             <<K_username, username>>,
                             <<K_password, password>> >>, fail)
    /\ UNCHANGED client

\* exchange_client_credentials testing the joined string, as the URL does
exchange_client_credentials_joined(fail) ==
    /\ pc = "idle"
    /\ LET scopes == join(client.scopes, <<" ">>)
           params == << <<K_grant_type, V_client_credentials>> >>
       IN  call_request_token(IF Len(scopes) # 0
                              THEN Append(params, <<K_scope, scopes>>)
                              ELSE params, fail)
    /\ UNCHANGED client

exchange_client_credentials(fail) ==
    /\ pc = "idle"
    /\ LET scopes_opt == IF Len(client.scopes) # 0
                         THEN Some(join(client.scopes, <<" ">>)) ELSE None
           params == << <<K_grant_type, V_client_credentials>> >>
       IN  call_request_token(IF scopes_opt.some
                              THEN Append(params, <<K_scope, scopes_opt.v>>)
                              ELSE params, fail)
    /\ UNCHANGED client

\* exchange_refresh_token sending the configured scopes, as
\* exchange_client_credentials does
exchange_refresh_token_with_scope(refresh_token, fail) ==
    /\ pc = "idle"
    /\ LET params == << <<K_grant_type, K_refresh_token>>,
                        <<K_refresh_token, refresh_token>> >>
       IN  call_request_token(IF Len(client.scopes) # 0
                              THEN Append(params, <<K_scope, join(client.scopes, <<" ">>)>>)
                              ELSE params, fail)
    /\ UNCHANGED client

exchange_refresh_token(refresh_token, fail) ==
    /\ pc = "idle"
    /\ call_request_token(<< <<K_grant_type, K_refresh_token>>,
                             <<K_refresh_token, refresh_token>> >>, fail)
    /\ UNCHANGED client

\* transfer.perform() tried once more after a transport failure
transfer_perform_retry(outcome) ==
    /\ pc = "perform"
    /\ IF outcome.err = "perform" /\ posts = 0
       THEN /\ posts' = posts + 1
            /\ UNCHANGED <<pc, request, last>>
       ELSE /\ pc' = "idle"
            /\ request' = NoRequest
            /\ posts' = 0
            /\ last' = ExchangeReturned(outcome, posts + 1)
    /\ UNCHANGED client

\* the one POST, and the scopes of the client taken by the call
transfer_perform_take_scopes(outcome) ==
    /\ pc = "perform"
    /\ pc' = "idle"
    /\ request' = NoRequest
    /\ posts' = 0
    /\ last' = ExchangeReturned(outcome, posts + 1)
    /\ client' = [client EXCEPT !.scopes = <<>>]

\* transfer.perform() and the rest of the call: the one POST, then the
\* classification of its answer
transfer_perform(outcome) ==
    /\ pc = "perform"
    /\ pc' = "idle"
    /\ request' = NoRequest
    /\ posts' = 0
    /\ last' = ExchangeReturned(outcome, posts + 1)
    /\ UNCHANGED client

(***************************************************************************)
(* The specification.                                                      *)
(***************************************************************************)
CurlSteps ==
    {"none", "username", "password", "url", "headers_append", "http_headers",
     "post", "post_field_size", "read_function", "write_function"}

Init ==
    /\ \E client_id \in ClientIds, client_secret \in ClientSecrets,
          auth_url \in AuthUrls, token_url \in TokenUrls :
            client = new(client_id, client_secret, auth_url, token_url)
    /\ pc = "idle"
    /\ request = NoRequest
    /\ posts = 0
    /\ last = Returned("new", NoArgs, NoUrl, NoOutcome, NoResult, 0)

Next ==
    \/ \E scope \in ScopeValues : add_scope(scope)
    \/ \E auth_type \in AuthTypes : set_auth_type(auth_type)
    \/ \E redirect_url \in RedirectUrls : set_redirect_url(redirect_url)
    \/ \E state \in States : authorize_url(state)
    \/ \E state \in States : authorize_url_implicit(state)
    \/ \E response_type \in ResponseTypes, extra_params \in ExtraParams :
          authorize_url_extension(response_type, extra_params)
    \/ insecure_authorize_url
    \/ insecure_authorize_url_implicit
    \/ \E code \in GrantCodes, fail \in CurlSteps : exchange_code(code, fail)
    \/ \E username \in Usernames, password \in Passwords, fail \in CurlSteps :
          exchange_password(username, password, fail)
    \/ \E fail \in CurlSteps : exchange_client_credentials(fail)
    \/ \E refresh_token \in RefreshTokens, fail \in CurlSteps :
          exchange_refresh_token(refresh_token, fail)
    \/ \E outcome \in SampleOutcomes : transfer_perform(outcome)

Spec == Init /\ [][Next]_vars

\* the exchanges of a client as constructed, against every answer of the
\* token endpoint
NextResponse ==
    \/ \E auth_type \in AuthTypes : set_auth_type(auth_type)
    \/ \E code \in GrantCodes, fail \in CurlSteps : exchange_code(code, fail)
    \/ \E username \in Usernames, password \in Passwords, fail \in CurlSteps :
          exchange_password(username, password, fail)
    \/ \E fail \in CurlSteps : exchange_client_credentials(fail)
    \/ \E refresh_token \in RefreshTokens, fail \in CurlSteps :
          exchange_refresh_token(refresh_token, fail)
    \/ \E outcome \in TransportOutcomes : transfer_perform(outcome)

SpecResponse == Init /\ [][NextResponse]_vars

(***************************************************************************)
(* Client::new as a call: Url::parse of the two texts, each followed by    *)
(* `?`, then the struct.  Url::parse wants a scheme (a letter, then        *)
(* letters, digits, "+", "-", "."), and for http and https a host; it      *)
(* gives "/" for the empty path of such a URL.  The texts here have no     *)
(* fragment.                                                               *)
(***************************************************************************)
Digits == {"0","1","2","3","4","5","6","7","8","9"}

Alpha ==
    {UpperCase[k] : k \in 1..Len(UpperCase)} \cup
    {LowerCase[k] : k \in 1..Len(LowerCase)}

\* the place of the first c in s, or 0
IndexOf(s, c) ==
    IF \E i \in 1..Len(s) : s[i] = c
    THEN CHOOSE i \in 1..Len(s) : s[i] = c /\ \A j \in 1..(i - 1) : s[j] # c
    ELSE 0

RECURSIVE strip_slashes(_)
strip_slashes(s) ==
    IF Len(s) > 0 /\ Head(s) = "/" THEN strip_slashes(Tail(s)) ELSE s

SpecialSchemes == { <<"h","t","t","p">>, <<"h","t","t","p","s">> }

Url_parse(input) ==
    LET colon   == IndexOf(input, ":")
        scheme  == SubSeq(input, 1, colon - 1)
        rest    == SubSeq(input, colon + 1, Len(input))
        special == to_lowercase(scheme) \in SpecialSchemes
        q       == IndexOf(input, "?")
        before  == IF q > 0 THEN SubSeq(input, 1, q - 1) ELSE input
        after   == strip_slashes(IF q > 0 THEN SubSeq(rest, 1, q - colon - 1)
                                 ELSE rest)
        slash   == IndexOf(after, "/")
        host    == IF slash > 0 THEN SubSeq(after, 1, slash - 1) ELSE after
    IN  IF ~(/\ colon > 1
             /\ scheme[1] \in Alpha
             /\ \A i \in 1..Len(scheme) :
                   scheme[i] \in Alpha \cup Digits \cup {"+", "-", "."})
        THEN Err
        ELSE IF special /\ host = <<>>
        THEN Err
        ELSE Ok([base  |-> IF special /\ slash = 0 THEN before \o <<"/">>
                           ELSE before,
                 query |-> IF q > 0 THEN Some(SubSeq(input, q + 1, Len(input)))
                           ELSE None])

\* the arguments of Client::new
ClientIdTexts == ClientIds \cup { <<>> }

AuthUrlTexts ==
    { <<"h","t","t","p",":","/","/","a","/">>,
      <<"h","t","t","p",":","/","/","a">>,
      <<"a","/","b">>,
      <<"h","t","t","p",":","/","/">>,
      <<>> }

TokenUrlTexts ==
    { <<"h","t","t","p",":","/","/","t","/">>,
      <<"t">>,
      <<"/","/","t","/">> }

\* before Client::new has returned a Client there is none
NoClient == new(<<>>, None, NoUrl, NoUrl)

NewArgs(client_id, client_secret, auth_url, token_url) ==
    [client_id |-> client_id, client_secret |-> client_secret,
     auth_url |-> auth_url, token_url |-> token_url]

NewReturned(args, result) ==
    Returned("new", args, NoUrl, NoOutcome, result, 0)

\* Client::new with the `?` on token_url replaced by a fallback to auth_url
Client_new_token_url_fallback(client_id, client_secret, auth_url, token_url) ==
    /\ pc = "start"
    /\ LET a == Url_parse(auth_url)
           t == Url_parse(token_url)
           args == NewArgs(client_id, client_secret, auth_url, token_url)
       IN  IF a.ok
           THEN /\ client' = new(client_id, client_secret, a.v,
                                 IF t.ok THEN t.v ELSE a.v)
                /\ pc' = "idle"
                /\ last' = NewReturned(args, Ok(<<>>))
           ELSE /\ client' = client
                /\ pc' = "failed"
                /\ last' = NewReturned(args, Err)
    /\ UNCHANGED <<request, posts>>

Client_new(client_id, client_secret, auth_url, token_url) ==
    /\ pc = "start"
    /\ LET a == Url_parse(auth_url)
           t == Url_parse(token_url)
           args == NewArgs(client_id, client_secret, auth_url, token_url)
       IN  IF a.ok /\ t.ok
           THEN /\ client' = new(client_id, client_secret, a.v, t.v)
                /\ pc' = "idle"
                /\ last' = NewReturned(args, Ok(<<>>))
           ELSE /\ client' = client
                /\ pc' = "failed"
                /\ last' = NewReturned(args, Err)
    /\ UNCHANGED <<request, posts>>

InitNew ==
    /\ client = NoClient
    /\ pc = "start"
    /\ request = NoRequest
    /\ posts = 0
    /\ last = Returned("start", NoArgs, NoUrl, NoOutcome, NoResult, 0)

NextNew ==
    \/ \E client_id \in ClientIdTexts, client_secret \in ClientSecrets,
          auth_url \in AuthUrlTexts, token_url \in TokenUrlTexts :
            Client_new(client_id, client_secret, auth_url, token_url)
    \/ Next

SpecNew == InitNew /\ [][NextNew]_vars

(***************************************************************************)
(* The exchanges against the 200 responses of a token endpoint whose body  *)
(* is a JSON object: every spelling of token_type and every form of scope. *)
(***************************************************************************)
TokenTypeWireValues ==
    { JAbsent, JNull, JNum(1) } \cup
    { JStr(s) : s \in
        { <<"b","e","a","r","e","r">>,
          <<"B","e","a","r","e","r">>,
          <<"B","E","A","R","E","R">>,
          <<"b","E","a","R","e","R">>,
          <<"m","a","c">>,
          <<"M","a","c">>,
          <<"M","A","C">>,
          <<"m","A","c">>,
          <<"b","a","s","i","c">>,
          <<"b","e","a","r","e","r"," ">>,
          <<"b","e","a","r","e","r","r">>,
          <<>> } }

ScopeWireValues ==
    { JAbsent, JNull, JNum(1) } \cup
    { JStr(s) : s \in
        { <<"a"," ","b">>,
          <<"a">>,
          <<>>,
          <<"a"," "," ","b">>,
          <<" ","a">>,
          <<"b"," ","a"," ","c">> } }

AccessTokenWireValues == { JAbsent, JStr(<<"t","o","k">>) }

TokenDocs ==
    { JObject([NoMembers EXCEPT !.access_token = access_token,
                                !.token_type = token_type,
                                !.scope = scope]) :
        access_token \in AccessTokenWireValues,
        token_type \in TokenTypeWireValues,
        scope \in ScopeWireValues }

TokenOutcomes ==
    { Outcome("", 200, content_type, Body(FALSE, TRUE, doc)) :
        content_type \in {None, Some(CONTENT_TYPE_JSON)}, doc \in TokenDocs }

NextToken ==
    \/ \E code \in GrantCodes, fail \in CurlSteps : exchange_code(code, fail)
    \/ \E refresh_token \in RefreshTokens, fail \in CurlSteps :
          exchange_refresh_token(refresh_token, fail)
    \/ \E outcome \in TokenOutcomes : transfer_perform(outcome)

SpecToken == Init /\ [][NextToken]_vars

(***************************************************************************)
(* The serde helpers and the error type called on their own: the scopes of *)
(* a token written with serialize_space_delimited_vec and read back with   *)
(* deserialize_space_delimited_vec, and a BasicErrorResponseType           *)
(* formatted, written and read.                                            *)
(***************************************************************************)
\* the scope strings of a token: empty, plain, and one with a space inside
TokenScopeValues == { <<>>, <<"a">>, <<"b">>, <<"c"," ","d">> }

RECURSIVE SeqsUpTo(_, _)
SeqsUpTo(S, n) ==
    IF n = 0 THEN { <<>> }
    ELSE LET shorter == SeqsUpTo(S, n - 1)
         IN  shorter \cup { Append(q, x) : q \in shorter, x \in S }

\* Option<Vec<String>>
StringVecOpts == { None } \cup { Some(q) : q \in SeqsUpTo(TokenScopeValues, MaxScopes) }

\* the strings a server may send for the error member
ErrorTypeWireStrings ==
    { <<"i","n","v","a","l","i","d","_","r","e","q","u","e","s","t">>,
      <<"i","n","v","a","l","i","d","_","c","l","i","e","n","t">>,
      <<"i","n","v","a","l","i","d","_","g","r","a","n","t">>,
      <<"u","n","a","u","t","h","o","r","i","z","e","d","_","c","l","i","e","n","t">>,
      <<"u","n","s","u","p","p","o","r","t","e","d","_","g","r","a","n","t","_","t","y","p","e">>,
      <<"i","n","v","a","l","i","d","_","s","c","o","p","e">>,
      <<"I","n","v","a","l","i","d","G","r","a","n","t">>,
      <<"I","N","V","A","L","I","D","_","G","R","A","N","T">>,
      <<"i","n","v","a","l","i","d","g","r","a","n","t">>,
      <<"i","n","v","a","l","i","d","-","g","r","a","n","t">>,
      <<"i","n","v","a","l","i","d"," ","g","r","a","n","t">>,
      <<"i","n","v","a","l","i","d","_","g","r","a","n","t"," ">>,
      <<>>,
      <<"b","o","g","u","s">> }

HelperReturned(op, input, output) ==
    Returned(op, input, NoUrl, NoOutcome, output, 0)

call_serialize_space_delimited_vec(string_vec_opt) ==
    /\ pc = "idle"
    /\ last' = HelperReturned("serialize_space_delimited_vec",
                              [string_vec_opt |-> string_vec_opt, wire |-> JAbsent],
                              serialize_space_delimited_vec(string_vec_opt))
    /\ UNCHANGED <<client, pc, request, posts>>

\* the value just written, read back
call_deserialize_space_delimited_vec ==
    /\ pc = "idle"
    /\ last.op = "serialize_space_delimited_vec"
    /\ last' = HelperReturned("deserialize_space_delimited_vec",
                              [string_vec_opt |-> last.args.string_vec_opt,
                               wire |-> last.result],
                              deserialize_space_delimited_vec(last.result))
    /\ UNCHANGED <<client, pc, request, posts>>

call_fmt(variant) ==
    /\ pc = "idle"
    /\ last' = HelperReturned("fmt", variant,
                              [display |-> Display_fmt(variant),
                               debug |-> Debug_fmt(variant)])
    /\ UNCHANGED <<client, pc, request, posts>>

call_serialize_error_type(variant) ==
    /\ pc = "idle"
    /\ last' = HelperReturned("serialize_error_type", variant,
                              serialize_error_type(variant))
    /\ UNCHANGED <<client, pc, request, posts>>

call_deserialize_error_type(s) ==
    /\ pc = "idle"
    /\ last' = HelperReturned("deserialize_error_type", s, deserialize_error_type(s))
    /\ UNCHANGED <<client, pc, request, posts>>

NextHelpers ==
    \/ \E string_vec_opt \in StringVecOpts :
          call_serialize_space_delimited_vec(string_vec_opt)
    \/ call_deserialize_space_delimited_vec
    \/ \E variant \in BasicErrorResponseType : call_fmt(variant)
    \/ \E variant \in BasicErrorResponseType : call_serialize_error_type(variant)
    \/ \E s \in ErrorTypeWireStrings : call_deserialize_error_type(s)

SpecHelpers == Init /\ [][NextHelpers]_vars

(***************************************************************************)
(* Reading a form-urlencoded text back, as the server that receives the    *)
(* query or the body does: the pairs between "&", each split at its first  *)
(* "=", with "+" and the percent codes decoded.                            *)
(***************************************************************************)
PercentEncoded == {"&", "+", "/", ":", ";", "=", "?", "%"}

RECURSIVE percent_decode(_)
percent_decode(s) ==
    IF Len(s) = 0 THEN <<>>
    ELSE IF Head(s) = "+" THEN <<" ">> \o percent_decode(Tail(s))
    ELSE IF /\ Head(s) = "%"
            /\ Len(s) >= 3
            /\ \E c \in PercentEncoded : PercentCode(c) = SubSeq(s, 1, 3)
         THEN <<CHOOSE c \in PercentEncoded : PercentCode(c) = SubSeq(s, 1, 3)>>
                  \o percent_decode(SubSeq(s, 4, Len(s)))
         ELSE <<Head(s)>> \o percent_decode(Tail(s))

\* the segments of a text between the occurrences of a separator
split_at(s, sep) ==
    LET at == {i \in 1..Len(s) : s[i] = sep}
        nth(k) == CHOOSE i \in at : Cardinality({j \in at : j < i}) = k - 1
        n == Cardinality(at) + 1
    IN  [k \in 1..n |->
            SubSeq(s, IF k = 1 THEN 1 ELSE nth(k - 1) + 1,
                      IF k = n THEN Len(s) ELSE nth(k) - 1)]

parse_pair(segment) ==
    LET eq == {i \in 1..Len(segment) : segment[i] = "="}
    IN  IF eq = {} THEN <<percent_decode(segment), <<>>>>
        ELSE LET i == CHOOSE i \in eq : \A j \in eq : i <= j
             IN  <<percent_decode(SubSeq(segment, 1, i - 1)),
                   percent_decode(SubSeq(segment, i + 1, Len(segment)))>>

IsNonEmpty(segment) == Len(segment) > 0

form_urlencoded_parse(text) ==
    LET segments == SelectSeq(split_at(text, "&"), IsNonEmpty)
    IN  [i \in 1..Len(segments) |-> parse_pair(segments[i])]

\* the values a key has among the pairs, in order
RECURSIVE ValuesOf(_, _)
ValuesOf(pairs, key) ==
    IF Len(pairs) = 0 THEN <<>>
    ELSE (IF pairs[1][1] = key THEN <<pairs[1][2]>> ELSE <<>>)
             \o ValuesOf(Tail(pairs), key)

(***************************************************************************)
(* The claims.                                                             *)
(***************************************************************************)
ExchangeHasReturned == pc = "idle" /\ last.op = "exchange"

ResponseClassified == ExchangeHasReturned /\ last.outcome.err = ""

Kinds == {"Token", "ServerResponse", "Request", "Parse", "Other"}

\* C1: every exchange call ends with exactly one outcome out of Token,
\* ServerResponse, Request, Parse and Other, whatever the transport gave; the
\* outcome is Request if and only if the transport failed (a curl call of
\* post_request_token returned an error), and then no check of the response is
\* made.
C1_ExactlyOneOutcome ==
    ExchangeHasReturned =>
        /\ last.result.kind \in Kinds
        /\ (last.result.kind = "Token") <=> (last.result.token # NoToken)
        /\ (last.result.kind = "ServerResponse")
              <=> (last.result.error # NoErrorResponse)
        /\ (last.result.kind = "Other") <=> (last.result.message # NoMessage)
        /\ (last.result.kind = "Request") <=> (last.outcome.err # "")
        /\ (last.result.kind = "Request") <=> (last.result.steps = <<>>)

C1_Witness ==
    /\ ExchangeHasReturned
    /\ last.outcome.err = "perform"
    /\ last.result.kind = "Request"
    /\ last.posts = 1

\* the Content-Type values that name JSON: "application/json" in any letter
\* case, alone or followed by parameters
IsJsonContentType(content_type) ==
    /\ Len(content_type) >= Len(CONTENT_TYPE_JSON)
    /\ \A i \in 1..Len(CONTENT_TYPE_JSON) :
          \/ content_type[i] = CONTENT_TYPE_JSON[i]
          \/ \E k \in 1..Len(UpperCase) :
                /\ content_type[i] = UpperCase[k]
                /\ CONTENT_TYPE_JSON[i] = LowerCase[k]

TextHtml == <<"t","e","x","t","/","h","t","m","l">>

\* C2: on a response with status 200, a Content-Type that is present and
\* whose lower-cased value does not start with "application/json" (text/html)
\* yields Other and never a Token, whatever the body; an absent Content-Type,
\* or "application/json" in any letter case with or without parameters,
\* passes the Content-Type check.
C2_ContentType ==
    (ResponseClassified /\ last.outcome.http_status = 200) =>
        LET content_type == last.outcome.content_type
        IN  IF content_type.some /\ ~IsJsonContentType(content_type.v)
            THEN /\ last.result.kind = "Other"
                 /\ last.result.message =
                        [text |-> "Unexpected response Content-Type",
                         arg |-> content_type.v]
                 /\ last.result.steps = <<"http_status", "content_type">>
            ELSE /\ last.result.message.text # "Unexpected response Content-Type"
                 /\ Len(last.result.steps) > 2
                 /\ last.result.steps[3] = "is_empty"

C2_Witness ==
    /\ ResponseClassified
    /\ last.outcome.http_status = 200
    /\ last.outcome.content_type = Some(TextHtml)
    /\ last.outcome.response_body = Body(FALSE, TRUE, TokenDoc)
    /\ from_json(TokenDoc).ok
    /\ last.result.kind = "Other"

\* C3: on a response with a status other than 200 (201 too, and whatever the
\* Content-Type) the exchange never yields a Token: an empty body yields
\* Other("Server returned empty error response"), a body that parses as an
\* ErrorResponse yields ServerResponse with exactly the parsed error code
\* (400 with {"error":"invalid_grant"}: InvalidGrant, displayed
\* "invalid_grant"), any other body yields Parse.
C3_NonSuccessStatus ==
    (ResponseClassified /\ last.outcome.http_status # 200) =>
        LET body == last.outcome.response_body
            error == ErrorResponse_from_str(body.doc)
        IN  /\ last.result.kind # "Token"
            /\ body.empty =>
                  /\ last.result.kind = "Other"
                  /\ last.result.message.text = "Server returned empty error response"
            /\ (~body.empty /\ error.ok) =>
                  /\ last.result.kind = "ServerResponse"
                  /\ last.result.error = error.v
            /\ (~body.empty /\ ~error.ok) => last.result.kind = "Parse"
            /\ (body.doc = InvalidGrantDoc /\ ~body.empty) =>
                  /\ last.result.kind = "ServerResponse"
                  /\ last.result.error._error = "InvalidGrant"
                  /\ to_str(last.result.error._error) =
                        <<"i","n","v","a","l","i","d","_","g","r","a","n","t">>

C3_Witness ==
    /\ ResponseClassified
    /\ last.outcome.http_status = 400
    /\ last.outcome.response_body = Body(FALSE, TRUE, InvalidGrantDoc)
    /\ last.result.kind = "ServerResponse"
    /\ last.result.error._error = "InvalidGrant"

InSteps(step, steps) == \E i \in 1..Len(steps) : steps[i] = step

\* C4 as claimed: every 200 response with an empty body yields Other with the
\* message "Server returned empty response body", and from_json is not called.
C4_Claim ==
    (/\ ResponseClassified
     /\ last.outcome.http_status = 200
     /\ last.outcome.response_body.empty) =>
        /\ last.result.kind = "Other"
        /\ last.result.message.text = "Server returned empty response body"
        /\ ~InSteps("from_json", last.result.steps)

\* C4, amended: every 200 response with an empty body yields Other and
\* from_json is not called; the message is "Server returned empty response
\* body" when the Content-Type is absent or JSON, and the Content-Type message
\* when it is not, for the Content-Type is checked first.
C4_EmptyBody ==
    (/\ ResponseClassified
     /\ last.outcome.http_status = 200
     /\ last.outcome.response_body.empty) =>
        /\ last.result.kind = "Other"
        /\ ~InSteps("from_json", last.result.steps)
        /\ last.result.message.text =
              IF /\ last.outcome.content_type.some
                 /\ ~IsJsonContentType(last.outcome.content_type.v)
              THEN "Unexpected response Content-Type"
              ELSE "Server returned empty response body"

C4_Witness ==
    /\ ResponseClassified
    /\ last.outcome.http_status = 200
    /\ last.outcome.response_body.empty
    /\ last.outcome.content_type = Some(CONTENT_TYPE_JSON)
    /\ last.result.message.text = "Server returned empty response body"

\* the pairs of the body of the request in flight, as the server reads them
BodyPairs == form_urlencoded_parse(request.v.form)

\* C5: the client credentials of a token request travel in one place, set by
\* auth_type: with RequestBody the body has client_id, and client_secret if
\* and only if a secret is configured, and no Basic credentials are set; with
\* BasicAuth the Basic credentials are set (client_id as username, the secret
\* as password only if configured) and the body has neither key.
C5_Credentials ==
    pc = "perform" =>
        IF client.auth_type = "RequestBody"
        THEN /\ ValuesOf(BodyPairs, K_client_id) = <<client.client_id>>
             /\ ValuesOf(BodyPairs, K_client_secret) =
                   (IF client.client_secret.some
                    THEN <<client.client_secret.v>> ELSE <<>>)
             /\ ~request.v.username.some
             /\ ~request.v.password.some
        ELSE /\ request.v.username = Some(client.client_id)
             /\ request.v.password.some <=> client.client_secret.some
             /\ request.v.password.some =>
                   request.v.password.v = client.client_secret.v
             /\ ValuesOf(BodyPairs, K_client_id) = <<>>
             /\ ValuesOf(BodyPairs, K_client_secret) = <<>>

C5_Witness ==
    /\ pc = "perform"
    /\ client.auth_type = "RequestBody"
    /\ client.client_secret.some
    /\ ValuesOf(BodyPairs, K_client_secret) = <<client.client_secret.v>>
    /\ ValuesOf(BodyPairs, K_grant_type) = <<K_password>>

UrlHasReturned == pc = "idle" /\ last.op \in UrlOps

\* the pairs of the query of the URL just built, as the server reads them
QueryPairs == form_urlencoded_parse(last.url.query.v)

\* those of them that were in auth_url before the call
OwnQueryOfAuthUrl ==
    IF client.auth_url.query.some
    THEN form_urlencoded_parse(client.auth_url.query.v) ELSE <<>>

\* those of them that the caller gave as extra_params
ExtraParamsOfCall ==
    IF last.args.extra_params.some THEN last.args.extra_params.v ELSE <<>>

\* those of them that authorize_url_impl added itself
BuilderPairs ==
    SubSeq(QueryPairs, Len(OwnQueryOfAuthUrl) + 1,
           Len(QueryPairs) - Len(ExtraParamsOfCall))

ConfiguredRedirect ==
    IF client.redirect_url.some THEN <<client.redirect_url.v>> ELSE <<>>

\* C6 as claimed: the query of the authorization URL and the body of the
\* token request each have a redirect_uri parameter if and only if a
\* redirect_url is configured, with the configured value, and never otherwise.
C6_Claim ==
    /\ UrlHasReturned => ValuesOf(QueryPairs, K_redirect_uri) = ConfiguredRedirect
    /\ pc = "perform" => ValuesOf(BodyPairs, K_redirect_uri) = ConfiguredRedirect

\* C6, amended: the parameters that authorize_url_impl adds to the query, and
\* the body of the token request, each have a redirect_uri parameter if and
\* only if a redirect_url is configured, once and with the configured value;
\* the query keeps, besides, what auth_url's own query and the caller's
\* extra_params name, so the whole query has redirect_uri if and only if
\* configured whenever neither of these names it.
C6_RedirectUri ==
    /\ UrlHasReturned =>
          /\ QueryPairs = OwnQueryOfAuthUrl \o BuilderPairs \o ExtraParamsOfCall
          /\ ValuesOf(BuilderPairs, K_redirect_uri) = ConfiguredRedirect
          /\ (/\ ValuesOf(OwnQueryOfAuthUrl, K_redirect_uri) = <<>>
              /\ ValuesOf(ExtraParamsOfCall, K_redirect_uri) = <<>>) =>
                 ValuesOf(QueryPairs, K_redirect_uri) = ConfiguredRedirect
    /\ pc = "perform" => ValuesOf(BodyPairs, K_redirect_uri) = ConfiguredRedirect

C6_Witness ==
    /\ UrlHasReturned
    /\ last.op = "authorize_url_extension"
    /\ client.redirect_url.some
    /\ ValuesOf(ExtraParamsOfCall, K_redirect_uri) # <<>>
    /\ ValuesOf(BuilderPairs, K_redirect_uri) = <<client.redirect_url.v>>

\* C7: for every scope sequence S built by add_scope (the empty one and those
\* with empty strings too) the authorization URL has no scope parameter if
\* and only if S is empty, and otherwise exactly one, whose value is the
\* elements of S joined by single spaces in insertion order.  Stated for the
\* URLs whose scope parameters can only come from the scopes of the client:
\* neither auth_url's own query nor extra_params names scope.
C7_Claim ==
    (/\ UrlHasReturned
     /\ ValuesOf(OwnQueryOfAuthUrl, K_scope) = <<>>
     /\ ValuesOf(ExtraParamsOfCall, K_scope) = <<>>) =>
        ValuesOf(QueryPairs, K_scope) =
            (IF Len(client.scopes) = 0 THEN <<>>
             ELSE <<join(client.scopes, <<" ">>)>>)

IsClientCredentialsRequest ==
    /\ pc = "perform"
    /\ ValuesOf(BodyPairs, K_grant_type) = <<V_client_credentials>>

IsGrantSpecific(pair) == pair[1] \notin {K_client_id, K_client_secret, K_redirect_uri}

\* "grant_type=client_credentials&scope=a+b"
ScopeABOnTheWire ==
    K_grant_type \o <<"=">> \o V_client_credentials \o <<"&">> \o K_scope
        \o <<"=","a","+","b">>

\* C8: the grant-specific parameters of exchange_client_credentials are
\* grant_type=client_credentials, plus scope if and only if the configured
\* scope sequence is not empty; the value is then the scopes joined by single
\* spaces in insertion order (["a","b"] is sent as scope=a+b), and with no
\* scopes the body has no scope key.
C8_ClientCredentialsScope ==
    IsClientCredentialsRequest =>
        /\ SelectSeq(BodyPairs, IsGrantSpecific) =
              << <<K_grant_type, V_client_credentials>> >> \o
              (IF Len(client.scopes) = 0 THEN <<>>
               ELSE << <<K_scope, join(client.scopes, <<" ">>)>> >>)
        /\ client.scopes = <<>> => ValuesOf(BodyPairs, K_scope) = <<>>
        /\ client.scopes = << <<>> >> => ValuesOf(BodyPairs, K_scope) = << <<>> >>
        /\ client.scopes = << <<"b">>, <<"a">> >> =>
              ValuesOf(BodyPairs, K_scope) = << <<"b"," ","a">> >>
        /\ client.scopes = << <<"a">>, <<"b">> >> =>
              /\ ValuesOf(BodyPairs, K_scope) = << <<"a"," ","b">> >>
              /\ starts_with(request.v.form, ScopeABOnTheWire)

C8_Witness ==
    /\ IsClientCredentialsRequest
    /\ client.scopes = << <<"a">>, <<"b">> >>
    /\ starts_with(request.v.form, ScopeABOnTheWire)

\* C9 as claimed: each call of an exchange operation performs exactly one
\* HTTP POST before it returns, whatever the outcome, and no call returns
\* without having issued its request.
C9_Claim == ExchangeHasReturned => last.posts = 1

\* C9, amended: each call of an exchange operation performs at most one HTTP
\* POST, and no outcome triggers a second one; it performs exactly one
\* whenever the request could be set on the curl handle, whatever the outcome
\* then; a call returns without having issued its request only when a step
\* that sets up the curl handle fails before transfer.perform(), and its
\* outcome is then Request.
C9_AtMostOnePost ==
    /\ posts = 0
    /\ ExchangeHasReturned =>
          /\ last.posts \in {0, 1}
          /\ (last.posts = 0) <=> (last.outcome.err \in CurlSteps \ {"none"})
          /\ (last.posts = 0) => (last.result.kind = "Request")
          /\ (last.result.kind # "Request") => (last.posts = 1)

C9_Witness ==
    /\ ExchangeHasReturned
    /\ last.outcome.http_status = 200
    /\ last.result.kind = "Parse"
    /\ last.posts = 1

\* C10: no authorization-URL entry point and no exchange operation changes a
\* field of the Client: a step that is not a builder call leaves the
\* configuration as it was, so the URL built before it is the URL that the
\* same arguments build after it.
C10_ConfigurationUnchanged ==
    [][ (last'.op \notin BuilderOps) =>
            /\ client' = client
            /\ (last.op \in UrlOps) =>
                  authorize_url_impl(client', last.args.response_type,
                                     last.args.state, last.args.extra_params)
                      = last.url ]_vars

C10_Witness ==
    /\ ExchangeHasReturned
    /\ last.result.kind = "Token"
    /\ Len(client.scopes) = 2
    /\ client.redirect_url.some
    /\ client.auth_type = "RequestBody"

\* "auth_type"
K_auth_type == <<"a","u","t","h","_","t","y","p","e">>

\* the texts an auth_type or a client secret could take in a query
CredentialTexts ==
    { <<"R","e","q","u","e","s","t","B","o","d","y">>,
      <<"B","a","s","i","c","A","u","t","h">> }
    \cup { secret.v : secret \in {x \in ClientSecrets : x.some} }

\* C11: the authorization URL does not depend on auth_type: the URL an entry
\* point returned is the URL the same arguments build on the configuration
\* with either auth_type, and with any client_secret; and none of the
\* parameters authorize_url_impl adds has the key auth_type or client_secret,
\* or the auth_type or the client secret for a value.
C11_UrlIgnoresAuthType ==
    UrlHasReturned =>
        /\ \A auth_type \in AuthTypes, client_secret \in ClientSecrets :
              authorize_url_impl([client EXCEPT !.auth_type = auth_type,
                                                !.client_secret = client_secret],
                                 last.args.response_type, last.args.state,
                                 last.args.extra_params) = last.url
        /\ ValuesOf(BuilderPairs, K_auth_type) = <<>>
        /\ ValuesOf(BuilderPairs, K_client_secret) = <<>>
        /\ \A i \in 1..Len(BuilderPairs) : BuilderPairs[i][2] \notin CredentialTexts
        /\ ValuesOf(QueryPairs, K_auth_type) = <<>>
        /\ ValuesOf(QueryPairs, K_client_secret) = <<>>

C11_Witness ==
    /\ UrlHasReturned
    /\ last.op = "authorize_url"
    /\ client.auth_type = "RequestBody"
    /\ client.client_secret.some
    /\ Len(BuilderPairs) = 5

\* the response_type each entry point asks for, where it fixes one
ResponseTypeOf(op) ==
    CASE op \in {"authorize_url", "insecure_authorize_url"} -> K_code
      [] op \in {"authorize_url_implicit", "insecure_authorize_url_implicit"} -> V_token
      [] OTHER -> last.args.response_type

\* C12: the query of an authorization URL is auth_url's own query, then the
\* standard parameters, then the caller's extra_params.  The standard
\* parameters always begin with response_type and client_id (response_type is
\* code for authorize_url, token for authorize_url_implicit); they have
\* exactly one state, the caller's value and in the last place, for
\* authorize_url and authorize_url_implicit, and none for the insecure entry
\* points and authorize_url_extension; all the extra_params of
\* authorize_url_extension end the query, verbatim and in the caller's order.
C12_QueryParameters ==
    UrlHasReturned =>
        /\ QueryPairs = OwnQueryOfAuthUrl \o BuilderPairs \o ExtraParamsOfCall
        /\ Len(BuilderPairs) >= 2
        /\ BuilderPairs[1] = <<K_response_type, ResponseTypeOf(last.op)>>
        /\ BuilderPairs[2] = <<K_client_id, client.client_id>>
        /\ ValuesOf(BuilderPairs, K_response_type) = <<ResponseTypeOf(last.op)>>
        /\ ValuesOf(BuilderPairs, K_client_id) = <<client.client_id>>
        /\ IF last.op \in {"authorize_url", "authorize_url_implicit"}
           THEN /\ last.args.state.some
                /\ last.args.state.v \in States
                /\ ValuesOf(BuilderPairs, K_state) = <<last.args.state.v>>
                /\ BuilderPairs[Len(BuilderPairs)] = <<K_state, last.args.state.v>>
                /\ ExtraParamsOfCall = <<>>
           ELSE /\ ValuesOf(BuilderPairs, K_state) = <<>>
                /\ ValuesOf(QueryPairs, K_state) = ValuesOf(ExtraParamsOfCall, K_state)
        /\ last.op = "authorize_url_extension" =>
              /\ last.args.extra_params.some
              /\ last.args.extra_params.v \in ExtraParams
              /\ SubSeq(QueryPairs, Len(QueryPairs) - Len(ExtraParamsOfCall) + 1,
                        Len(QueryPairs)) = last.args.extra_params.v

C12_Witness ==
    /\ UrlHasReturned
    /\ last.op = "authorize_url_extension"
    /\ Len(ExtraParamsOfCall) = 2
    /\ ExtraParamsOfCall[2][2] = <<"2"," ","3">>
    /\ QueryPairs[Len(QueryPairs)] = ExtraParamsOfCall[2]
    /\ Len(client.scopes) = 2
    /\ client.redirect_url.some

HasNoSpace(str) == \A i \in 1..Len(str) : str[i] # " "

ScopesReadBack == pc = "idle" /\ last.op = "deserialize_space_delimited_vec"

\* C13 as claimed: for every ordered sequence of scope strings none of which
\* contains a space, the empty sequence included, the value that
\* serialize_space_delimited_vec writes is read back by
\* deserialize_space_delimited_vec as the same sequence; and None is written
\* as null and read back as None.
C13_Claim ==
    ScopesReadBack =>
        IF last.args.string_vec_opt.some
        THEN (\A i \in 1..Len(last.args.string_vec_opt.v) :
                 HasNoSpace(last.args.string_vec_opt.v[i])) =>
                    last.result = Ok(last.args.string_vec_opt)
        ELSE /\ last.args.wire = JNull
             /\ last.result = Ok(None)

\* the six strings of RFC 6749, section 5.2
SnakeCaseLiteral ==
    [InvalidRequest |-> <<"i","n","v","a","l","i","d","_","r","e","q","u","e","s","t">>,
     InvalidClient |-> <<"i","n","v","a","l","i","d","_","c","l","i","e","n","t">>,
     InvalidGrant |-> <<"i","n","v","a","l","i","d","_","g","r","a","n","t">>,
     UnauthorizedClient |-> <<"u","n","a","u","t","h","o","r","i","z","e","d","_","c","l","i","e","n","t">>,
     UnsupportedGrantType |-> <<"u","n","s","u","p","p","o","r","t","e","d","_","g","r","a","n","t","_","t","y","p","e">>,
     InvalidScope |-> <<"i","n","v","a","l","i","d","_","s","c","o","p","e">>]

\* C14: for each of the six members of BasicErrorResponseType the Display
\* string, the Debug string and the serde serialization are the same literal
\* snake_case string; deserializing that string gives the member back, and
\* no other wire string deserializes to a member.
C14_ErrorTypeStrings ==
    /\ DOMAIN SnakeCaseLiteral = BasicErrorResponseType
    /\ (pc = "idle" /\ last.op = "fmt") =>
          /\ last.result.display = SnakeCaseLiteral[last.args]
          /\ last.result.debug = SnakeCaseLiteral[last.args]
    /\ (pc = "idle" /\ last.op = "serialize_error_type") =>
          last.result = JStr(SnakeCaseLiteral[last.args])
    /\ (pc = "idle" /\ last.op = "deserialize_error_type") =>
          /\ last.result.ok <=>
                \E variant \in BasicErrorResponseType :
                    SnakeCaseLiteral[variant] = last.args
          /\ last.result.ok => SnakeCaseLiteral[last.result.v] = last.args

C14_Witness ==
    /\ pc = "idle"
    /\ last.op = "deserialize_error_type"
    /\ last.args = SnakeCaseLiteral["UnsupportedGrantType"]
    /\ last.result = Ok("UnsupportedGrantType")

\* a 200 response that passed the checks before from_json
TokenBodyParsed ==
    /\ ResponseClassified
    /\ last.outcome.http_status = 200
    /\ last.result.steps # <<>>
    /\ last.result.steps[Len(last.result.steps)] = "from_json"

WireDoc == last.outcome.response_body.doc

\* the members of the token other than token_type are there and well typed
RestIsWellFormed ==
    /\ WireDoc.json
    /\ WireDoc.m.access_token.t = "str"
    /\ WireDoc.m.expires_in.t \in {"absent", "null"}
    /\ WireDoc.m.refresh_token.t \in {"absent", "null", "str"}
    /\ WireDoc.m.scope.t \in {"absent", "null", "str"}

\* s is the word in some letter case: letter by letter the lower-case letter
\* of the word or its upper-case one
IsSpelling(s, word) ==
    /\ Len(s) = Len(word)
    /\ \A i \in 1..Len(word) :
          \/ s[i] = word[i]
          \/ \E k \in 1..Len(LowerCase) : LowerCase[k] = word[i] /\ UpperCase[k] = s[i]

\* "bearer"
W_bearer == <<"b","e","a","r","e","r">>

\* "mac"
W_mac == <<"m","a","c">>

\* C15: the token_type of a basic token is read without regard to letter
\* case: every spelling of "bearer" gives Bearer and every spelling of "mac"
\* gives Mac, as the lower-case word does; a token_type that is no spelling
\* of either makes the deserialization fail, and the exchange yields Parse,
\* not a Token.
C15_TokenTypeCaseInsensitive ==
    (TokenBodyParsed /\ WireDoc.json /\ WireDoc.m.token_type.t = "str") =>
        LET s == WireDoc.m.token_type.s
        IN  /\ last.result.kind \in {"Token", "Parse"}
            /\ IsSpelling(s, W_bearer) =>
                  /\ RestIsWellFormed <=> last.result.kind = "Token"
                  /\ RestIsWellFormed => last.result.token._token_type = "Bearer"
            /\ IsSpelling(s, W_mac) =>
                  /\ RestIsWellFormed <=> last.result.kind = "Token"
                  /\ RestIsWellFormed => last.result.token._token_type = "Mac"
            /\ (~IsSpelling(s, W_bearer) /\ ~IsSpelling(s, W_mac)) =>
                  last.result.kind = "Parse"

C15_Witness ==
    /\ TokenBodyParsed
    /\ RestIsWellFormed
    /\ WireDoc.m.token_type = JStr(<<"B","E","A","R","E","R">>)
    /\ last.result.kind = "Token"
    /\ last.result.token._token_type = "Bearer"

ClientConstructed == pc \in {"idle", "perform"}

\* C16 as claimed: the client_id of every Client that Client::new constructed,
\* carried through any sequence of builder calls, is a non-empty string.
C16_Claim == ClientConstructed => client.client_id # <<>>

\* the texts that are no absolute URL: relative ones, one without a host,
\* the empty one
NotAbsoluteUrls ==
    { <<"a","/","b">>, <<"h","t","t","p",":","/","/">>, <<"t">>, <<"/","/","t","/">>, <<>> }

\* C17: Client::new returns an error and no Client whenever auth_url or
\* token_url is not a valid absolute URL, and a Client otherwise, whose
\* auth_url and token_url are the URLs given; after that no builder call, no
\* URL build and no exchange changes either of them.
C17_UrlsValidated ==
    [][ /\ (pc = "start") =>
              /\ last'.op = "new"
              /\ IF \/ last'.args.auth_url \in NotAbsoluteUrls
                    \/ last'.args.token_url \in NotAbsoluteUrls
                 THEN /\ ~last'.result.ok
                      /\ pc' = "failed"
                      /\ client' = NoClient
                 ELSE /\ last'.result.ok
                      /\ pc' = "idle"
                      /\ url_to_string(client'.auth_url) \in
                            {last'.args.auth_url, last'.args.auth_url \o <<"/">>}
                      /\ url_to_string(client'.token_url) \in
                            {last'.args.token_url, last'.args.token_url \o <<"/">>}
        /\ (pc # "start") =>
              /\ pc' \in {"idle", "perform"}
              /\ client'.auth_url = client.auth_url
              /\ client'.token_url = client.token_url ]_vars

C17_Witness ==
    /\ pc = "failed"
    /\ last.op = "new"
    /\ last.args.auth_url = <<"h","t","t","p",":","/","/","a","/">>
    /\ last.args.token_url = <<"t">>
    /\ ~last.result.ok
    /\ client = NoClient

\* the spaces of a string
SpacesOf(str) == {i \in 1..Len(str) : str[i] = " "}

\* C18: the scopes of a basic token that a 200 response gave: None, and not
\* an empty sequence, when the response has no scope member or has it as
\* null; when scope is a string, the pieces of the string between its
\* spaces, cut at every single space and in wire order (joined again by
\* single spaces they are the string, and none of them has a space).
C18_TokenScopes ==
    (TokenBodyParsed /\ last.result.kind = "Token") =>
        LET scope  == WireDoc.m.scope
            scopes == last.result.token._scopes
        IN  /\ scope.t \in {"absent", "null", "str"}
            /\ scope.t \in {"absent", "null"} =>
                  /\ scopes = None
                  /\ scopes # Some(<<>>)
            /\ scope.t = "str" =>
                  /\ scopes.some
                  /\ Len(scopes.v) = Cardinality(SpacesOf(scope.s)) + 1
                  /\ \A i \in 1..Len(scopes.v) : HasNoSpace(scopes.v[i])
                  /\ join(scopes.v, <<" ">>) = scope.s

C18_Witness ==
    /\ TokenBodyParsed
    /\ last.result.kind = "Token"
    /\ WireDoc.m.scope = JNull
    /\ last.result.token._scopes = None

\* C19: the configuration is a function of the history of builder calls.
\* Client::new gives no scopes, BasicAuth and no redirect_url; add_scope
\* appends its argument to scopes, whatever is there already, and changes
\* nothing else; set_auth_type and set_redirect_url set their field to their
\* argument and change nothing else; no other operation changes a field;
\* and a redirect_url that is configured is never absent again.
C19_BuilderHistory ==
    /\ [](last.op = "new" =>
            /\ client.scopes = <<>>
            /\ client.auth_type = "BasicAuth"
            /\ client.redirect_url = None)
    /\ [][ /\ last'.op = "add_scope" =>
                /\ last'.args.arg \in ScopeValues
                /\ client' = [client EXCEPT !.scopes = client.scopes \o <<last'.args.arg>>]
           /\ last'.op = "set_auth_type" =>
                /\ last'.args.arg \in AuthTypes
                /\ client' = [client EXCEPT !.auth_type = last'.args.arg]
           /\ last'.op = "set_redirect_url" =>
                /\ last'.args.arg \in RedirectUrls
                /\ client' = [client EXCEPT !.redirect_url = Some(last'.args.arg)]
           /\ last'.op \notin BuilderOps => client' = client
           /\ client.redirect_url.some => client'.redirect_url.some ]_vars

C19_Witness ==
    /\ pc = "idle"
    /\ last.op = "add_scope"
    /\ last.args.arg = <<"a">>
    /\ client.scopes = << <<"a">>, <<"a">> >>
    /\ client.auth_type = "RequestBody"
    /\ client.redirect_url.some

\* the checks of a 200 response, in their order
ChecksOf200 == <<"http_status", "content_type", "is_empty", "from_utf8", "from_json">>

\* C20: a 200 response with an absent or JSON Content-Type and a non-empty
\* body that is not valid UTF-8 yields Other with the message "Couldn't parse
\* response as UTF-8", and from_json is not called.  The checks of a 200
\* response come in the order Content-Type, empty body, UTF-8, JSON, and the
\* first that fails decides: a wrong Content-Type whatever the body, then the
\* empty body, then the bytes that are not UTF-8, then the JSON that is no
\* token, which yields Parse.
C20_CheckOrder ==
    (ResponseClassified /\ last.outcome.http_status = 200) =>
        LET content_type == last.outcome.content_type
            body == last.outcome.response_body
            n == Len(last.result.steps)
        IN  /\ n >= 2
            /\ last.result.steps = SubSeq(ChecksOf200, 1, n)
            /\ IF content_type.some /\ ~IsJsonContentType(content_type.v)
               THEN /\ last.result.kind = "Other"
                    /\ last.result.message.text = "Unexpected response Content-Type"
                    /\ n = 2
               ELSE IF body.empty
               THEN /\ last.result.kind = "Other"
                    /\ last.result.message.text = "Server returned empty response body"
                    /\ n = 3
               ELSE IF ~body.utf8
               THEN /\ last.result.kind = "Other"
                    /\ last.result.message.text = "Couldn't parse response as UTF-8"
                    /\ n = 4
                    /\ ~InSteps("from_json", last.result.steps)
               ELSE /\ n = 5
                    /\ last.result.kind = (IF body.doc = TokenDoc THEN "Token" ELSE "Parse")

C20_Witness ==
    /\ ResponseClassified
    /\ last.outcome.http_status = 200
    /\ last.outcome.content_type = Some(CONTENT_TYPE_JSON)
    /\ last.outcome.response_body = Body(FALSE, FALSE, InvalidClientDoc)
    /\ last.result.kind = "Other"
    /\ last.result.message.text = "Couldn't parse response as UTF-8"

\* the parameters authorize_url_impl adds to the query for the Client as it
\* is configured now, as the server reads them
UrlPairsOfClient ==
    LET pairs == form_urlencoded_parse(
                     authorize_url_impl(client, K_code, None, None).query.v)
    IN  SubSeq(pairs, Len(OwnQueryOfAuthUrl) + 1, Len(pairs))

\* C21 as claimed: for every configuration the authorization URL and the body
\* of the exchange_client_credentials request agree on scope: the parameters
\* the URL builder adds have a scope if and only if the body has one, and
\* then both carry the same space-joined value.
C21_Claim ==
    IsClientCredentialsRequest =>
        ValuesOf(UrlPairsOfClient, K_scope) = ValuesOf(BodyPairs, K_scope)

\* the grant types of the three exchanges that take a grant from the caller
V_grants_without_scope == {V_authorization_code, K_password, K_refresh_token}

\* C22: the request bodies of exchange_code, exchange_password and
\* exchange_refresh_token never have a scope parameter, whatever scopes the
\* Client has; a body that has one is the body of exchange_client_credentials.
C22_ScopeOnlyOnClientCredentials ==
    pc = "perform" =>
        /\ Len(ValuesOf(BodyPairs, K_grant_type)) = 1
        /\ BodyPairs[1][1] = K_grant_type
        /\ BodyPairs[1][2] \in V_grants_without_scope \cup {V_client_credentials}
        /\ BodyPairs[1][2] \in V_grants_without_scope =>
              ValuesOf(BodyPairs, K_scope) = <<>>
        /\ ValuesOf(BodyPairs, K_scope) # <<>> =>
              BodyPairs[1][2] = V_client_credentials

C22_Witness ==
    /\ pc = "perform"
    /\ BodyPairs[1] = <<K_grant_type, K_refresh_token>>
    /\ client.scopes = << <<"a">>, <<"b">> >>
    /\ ValuesOf(BodyPairs, K_scope) = <<>>

====
